---- MODULE Spec2Model ----
(***************************************************************************)
(* StackNN: the controller base class (models/base.py) and the command     *)
(* line runner (run.py).                                                   *)
(*                                                                         *)
(* Two state machines share this module.                                   *)
(*   Spec     one AbstractController object: construction, then any        *)
(*            sequence of init_controller, forward, run_sequence and       *)
(*            get_and_reset_reg_loss calls made by a single-threaded       *)
(*            harness.                                                     *)
(*   SpecCLI  one execution of run.py's __main__ block.                    *)
(*                                                                         *)
(* Optional values (Python's None) are sequences of length at most one:    *)
(* None is << >> and a present value x is << x >>.                         *)
(*                                                                         *)
(* models/base.py uses the name InterfaceRegTracker (line 54) without      *)
(* importing it.  The model takes the name as bound to the tracker class   *)
(* of structs/regularization, so that construction succeeds.               *)
(***************************************************************************)
EXTENDS Integers, Sequences, FiniteSets, TLC

VARIABLES
    ctor,             \* the arguments the constructor was called with
    impl,             \* what the concrete subclass provides
    _struct_type,     \* self._struct_type
    _read_size,       \* self._read_size
    _push_reg_weight, \* self._push_reg_weight
    _pop_reg_weight,  \* self._pop_reg_weight
    _struct,          \* self._struct
    _read,            \* self._read
    _reg_tracker,     \* self._reg_tracker (the object, shared with the struct)
    _network,         \* self._network
    input_buffer,     \* the concrete controller's input buffer
    output_buffer,    \* the concrete controller's output buffer
    t,                \* the concrete controller's time index
    pc,               \* position inside the running call ("idle": none)
    call,             \* arguments of the running (or last) init_controller
    outcome,          \* what the last call returned or raised (none while one runs)
    cli               \* run.py: the state of the __main__ block

ctlVars == << ctor, impl, _struct_type, _read_size, _push_reg_weight,
              _pop_reg_weight, _struct, _read, _reg_tracker, _network,
              input_buffer, output_buffer, t, pc, call, outcome >>

vars == << ctor, impl, _struct_type, _read_size, _push_reg_weight,
           _pop_reg_weight, _struct, _read, _reg_tracker, _network,
           input_buffer, output_buffer, t, pc, call, outcome, cli >>

----------------------------------------------------------------------------
(* Bounds of the model. *)

MaxReadSize == 2  \* read_size ranges over 1..MaxReadSize
MaxBatch == 2     \* batch_size ranges over 1..MaxBatch
MaxLen == 2       \* input sequences have at most MaxLen time steps
MaxVal == 1       \* pushed vectors are filled with a value of 0..MaxVal
MaxWeight == 1    \* regularization weights range over 0..MaxWeight
MaxLoss == 2      \* the tracker's total never grows beyond MaxLoss

----------------------------------------------------------------------------
(* Values. *)

None == << >>

Some(x) == << x >>

\* The default of an omitted keyword argument.
OrDefault(arg, default) == IF arg = None THEN default ELSE arg[1]

\* torch.zeros([batch_size, read_size]): a batch_size x read_size matrix.
Zeros(batch_size, read_size) ==
    [b \in 1..batch_size |-> [r \in 1..read_size |-> 0]]

\* A batch_size x read_size matrix filled with v.
Filled(batch_size, read_size, v) ==
    [b \in 1..batch_size |-> [r \in 1..read_size |-> v]]

\* What struct_type may be bound to: two Struct subclasses, a class that is
\* no Struct, and a value that is no class at all.
StructTypes == {"Stack", "Queue", "object", "not_a_class"}

IsClass(ty) == ty # "not_a_class"

\* issubclass(ty, Struct), for a class ty.
IsStructSubclass(ty) == ty \in {"Stack", "Queue"}

NoOutcome == [op |-> "none", result |-> "none", value |-> << >>]

Returned(op, value) == [op |-> op, result |-> "ok", value |-> value]

Raised(op, error) == [op |-> op, result |-> error, value |-> << >>]

----------------------------------------------------------------------------
(* The neural data structure (structs/base.py, structs/simple.py) and the  *)
(* regularization tracker (structs/regularization.py).                     *)

\* struct_type(batch_size, read_size): an empty structure.
NewStruct(ty, batch_size, read_size) ==
    [ type |-> ty, batch_size |-> batch_size, read_size |-> read_size,
      contents |-> << >>, reg_tracker |-> None,
      push_weight |-> None, pop_weight |-> None ]

\* Struct.set_reg_tracker(tracker): the struct keeps a reference.
set_reg_tracker(s, ref) == [s EXCEPT !.reg_tracker = Some(ref)]

\* Struct.set_reg_weight(operation, weight).
set_reg_weight(s, operation, weight) ==
    IF operation = "push" THEN [s EXCEPT !.push_weight = Some(weight)]
    ELSE [s EXCEPT !.pop_weight = Some(weight)]

\* Struct.read(): the top of a stack, the front of a queue, zeros when empty.
StructRead(s) ==
    IF s.contents = << >> THEN Zeros(s.batch_size, s.read_size)
    ELSE IF s.type = "Stack" THEN s.contents[Len(s.contents)]
    ELSE s.contents[1]

\* The contents after popping with strength pop (0 or 1).
Popped(s, pop) ==
    IF pop = 0 \/ s.contents = << >> THEN s.contents
    ELSE IF s.type = "Stack" THEN SubSeq(s.contents, 1, Len(s.contents) - 1)
    ELSE Tail(s.contents)

\* Struct.apply: pop with strength pop, then push v with strength push.
StructApply(s, push, pop, v) ==
    [s EXCEPT !.contents =
        IF push = 1 THEN Append(Popped(s, pop), v) ELSE Popped(s, pop)]

\* InterfaceRegTracker(): nothing accumulated.
NewRegTracker == [push |-> 0, pop |-> 0]

\* The penalties a struct's apply adds to its attached tracker: for each
\* operation with a configured weight, the weight times the strength.
Penalised(tracker, s, push, pop) ==
    IF s.reg_tracker = None THEN tracker
    ELSE [ push |-> tracker.push + OrDefault(s.push_weight, 0) * push,
           pop |-> tracker.pop + OrDefault(s.pop_weight, 0) * pop ]

\* InterfaceRegTracker.total(): everything accumulated since the last reset.
Total(tracker) == tracker.push + tracker.pop

----------------------------------------------------------------------------
(* Construction: AbstractController.__init__ run by a concrete subclass.   *)

Weights == {None} \cup {Some(w) : w \in 0..MaxWeight}

CtorArgs ==
    [ read_size : 1..MaxReadSize, struct_type : StructTypes,
      push_reg_weight : Weights, pop_reg_weight : Weights ]

\* A subclass overrides _init_buffer and forward, either with a body of its
\* own ("concrete") or with one that runs the base class's body ("base"),
\* and may assign self._network.
Impls ==
    [ init_buffer : {"concrete", "base"}, forward : {"concrete", "base"},
      network : BOOLEAN ]

IdleCLI == [pc |-> "off"]

__init__(args, sub) ==
    /\ ctor = args
    /\ impl = sub
    /\ _struct_type = args.struct_type
    /\ _struct = None
    /\ _network = IF sub.network THEN Some([batch_size |-> 0]) ELSE None
    /\ _read_size = args.read_size
    /\ _read = None
    /\ _reg_tracker = NewRegTracker
    /\ _push_reg_weight = OrDefault(args.push_reg_weight, 0)
    /\ _pop_reg_weight = OrDefault(args.pop_reg_weight, 0)
    /\ input_buffer = None
    /\ output_buffer = None
    /\ t = 0
    /\ pc = "idle"
    /\ call = [batch_size |-> 0, xs |-> << >>]
    /\ outcome = NoOutcome

Init ==
    /\ \E args \in CtorArgs, sub \in Impls : __init__(args, sub)
    /\ cli = IdleCLI

----------------------------------------------------------------------------
(* init_controller(batch_size, xs): _init_struct, _init_buffer,            *)
(* _init_network, one statement per step.  The harness is single-threaded: *)
(* while a call runs (pc # "idle") nothing else is enabled.                *)

cfgVars == << ctor, impl, _struct_type, _read_size, _push_reg_weight,
              _pop_reg_weight >>

\* The input sequences a task may hand over: up to MaxLen time steps, the
\* input of each named by its position in the sample.
Inputs == {[i \in 1..n |-> i] : n \in 0..MaxLen}

init_controller(batch_size, xs) ==
    /\ pc = "idle"
    /\ pc' = "check"
    /\ call' = [batch_size |-> batch_size, xs |-> xs]
    /\ outcome' = NoOutcome
    /\ UNCHANGED << cfgVars, _struct, _read, _reg_tracker, _network,
                    input_buffer, output_buffer, t, cli >>

\* InitStructCheck without the issubclass test.
InitStructCheck_Unchecked ==
    /\ pc = "check"
    /\ pc' = "zero_read"
    /\ UNCHANGED << cfgVars, _struct, _read, _reg_tracker, _network,
                    input_buffer, output_buffer, t, call, outcome, cli >>

\* base.py 71-72.  issubclass raises TypeError itself when its first
\* argument is no class.
InitStructCheck ==
    /\ pc = "check"
    /\ IF ~IsClass(_struct_type)
         THEN pc' = "idle" /\ outcome' = Raised("init_controller", "TypeError")
         ELSE IF ~IsStructSubclass(_struct_type)
         THEN pc' = "idle" /\ outcome' = Raised("init_controller", "ValueError")
         ELSE pc' = "zero_read" /\ outcome' = outcome
    /\ UNCHANGED << cfgVars, _struct, _read, _reg_tracker, _network,
                    input_buffer, output_buffer, t, call, cli >>

\* base.py 74.
InitStructRead ==
    /\ pc = "zero_read"
    /\ _read' = Some(Zeros(call.batch_size, _read_size))
    /\ pc' = "new_struct"
    /\ UNCHANGED << cfgVars, _struct, _reg_tracker, _network, input_buffer,
                    output_buffer, t, call, outcome, cli >>

\* InitStructNew keeping a structure that is already there.
InitStructNew_Reuse ==
    /\ pc = "new_struct"
    /\ _struct' = IF _struct = None
                    THEN Some(NewStruct(_struct_type, call.batch_size, _read_size))
                    ELSE _struct
    /\ pc' = "set_tracker"
    /\ UNCHANGED << cfgVars, _read, _reg_tracker, _network, input_buffer,
                    output_buffer, t, call, outcome, cli >>

\* base.py 75.
InitStructNew ==
    /\ pc = "new_struct"
    /\ _struct' = Some(NewStruct(_struct_type, call.batch_size, _read_size))
    /\ pc' = "set_tracker"
    /\ UNCHANGED << cfgVars, _read, _reg_tracker, _network, input_buffer,
                    output_buffer, t, call, outcome, cli >>

\* base.py 76: the tracker made by the constructor, as it is.
InitStructTracker ==
    /\ pc = "set_tracker"
    /\ _struct' = Some(set_reg_tracker(_struct[1], "_reg_tracker"))
    /\ pc' = "set_push"
    /\ UNCHANGED << cfgVars, _read, _reg_tracker, _network, input_buffer,
                    output_buffer, t, call, outcome, cli >>

\* base.py 77.
InitStructPush ==
    /\ pc = "set_push"
    /\ _struct' = Some(set_reg_weight(_struct[1], "push", _push_reg_weight))
    /\ pc' = "set_pop"
    /\ UNCHANGED << cfgVars, _read, _reg_tracker, _network, input_buffer,
                    output_buffer, t, call, outcome, cli >>

\* InitStructPop handing the push weight to the pop operation.
InitStructPop_PushWeight ==
    /\ pc = "set_pop"
    /\ _struct' = Some(set_reg_weight(_struct[1], "pop", _push_reg_weight))
    /\ pc' = "init_buffer"
    /\ UNCHANGED << cfgVars, _read, _reg_tracker, _network, input_buffer,
                    output_buffer, t, call, outcome, cli >>

\* base.py 78, and the return to init_controller (line 125).
InitStructPop ==
    /\ pc = "set_pop"
    /\ _struct' = Some(set_reg_weight(_struct[1], "pop", _pop_reg_weight))
    /\ pc' = "init_buffer"
    /\ UNCHANGED << cfgVars, _read, _reg_tracker, _network, input_buffer,
                    output_buffer, t, call, outcome, cli >>

\* _init_buffer leaving a filled output buffer as it is.
_init_buffer_StaleOutput ==
    /\ pc = "init_buffer"
    /\ IF impl.init_buffer = "base"
         THEN /\ pc' = "idle"
              /\ outcome' = Raised("init_controller", "NotImplementedError")
              /\ UNCHANGED << input_buffer, output_buffer, t >>
         ELSE /\ input_buffer' = Some(call.xs)
              /\ output_buffer' =
                    IF output_buffer = None THEN Some(<< >>) ELSE output_buffer
              /\ t' = 0
              /\ pc' = "init_network"
              /\ outcome' = outcome
    /\ UNCHANGED << cfgVars, _struct, _read, _reg_tracker, _network, call,
                    cli >>

\* _init_buffer swallowing the base body's error.
_init_buffer_Swallow ==
    /\ pc = "init_buffer"
    /\ IF impl.init_buffer = "base"
         THEN UNCHANGED << input_buffer, output_buffer, t >>
         ELSE /\ input_buffer' = Some(call.xs)
              /\ output_buffer' = Some(<< >>)
              /\ t' = 0
    /\ pc' = "init_network"
    /\ UNCHANGED << cfgVars, _struct, _read, _reg_tracker, _network, call,
                    outcome, cli >>

\* base.py 125 with 80-98: the base body raises; a concrete body fills the
\* input buffer with xs and empties the output buffer.
_init_buffer ==
    /\ pc = "init_buffer"
    /\ IF impl.init_buffer = "base"
         THEN /\ pc' = "idle"
              /\ outcome' = Raised("init_controller", "NotImplementedError")
              /\ UNCHANGED << input_buffer, output_buffer, t >>
         ELSE /\ input_buffer' = Some(call.xs)
              /\ output_buffer' = Some(<< >>)
              /\ t' = 0
              /\ pc' = "init_network"
              /\ outcome' = outcome
    /\ UNCHANGED << cfgVars, _struct, _read, _reg_tracker, _network, call,
                    cli >>

\* init_controller running _init_network before _init_buffer.
_init_network_Early ==
    /\ pc \in {"init_buffer", "init_network"}
    /\ IF _network = None
         THEN /\ outcome' = Raised("init_controller", "AttributeError")
              /\ _network' = _network
         ELSE /\ _network' = Some([batch_size |-> call.batch_size])
              /\ outcome' = Returned("init_controller", << >>)
    /\ pc' = "idle"
    /\ UNCHANGED << cfgVars, _struct, _read, _reg_tracker, input_buffer,
                    output_buffer, t, call, cli >>

\* base.py 126 with 100-110: self._network.init_network(batch_size).
_init_network ==
    /\ pc = "init_network"
    /\ IF _network = None
         THEN /\ outcome' = Raised("init_controller", "AttributeError")
              /\ _network' = _network
         ELSE /\ _network' = Some([batch_size |-> call.batch_size])
              /\ outcome' = Returned("init_controller", << >>)
    /\ pc' = "idle"
    /\ UNCHANGED << cfgVars, _struct, _read, _reg_tracker, input_buffer,
                    output_buffer, t, call, cli >>

----------------------------------------------------------------------------
(* forward, run_sequence, get_and_reset_reg_loss.                          *)

\* The controller has been through a whole init_controller.
Ready ==
    /\ _struct # None
    /\ input_buffer # None
    /\ _network # None
    /\ _network[1].batch_size # 0

\* Network.step's output vector, named by the input it was computed from.
NetOutput(x) == [input |-> x]

\* One time step of a concrete controller: the network's control signals
\* (push, pop, v) are applied to the struct, the read vector is replaced by
\* struct.read(), the output is appended, the time index advances.
Step(push, pop, v) ==
    /\ t < Len(input_buffer[1])
    /\ LET s == _struct[1]
           tracker == Penalised(_reg_tracker, s, push, pop)
           applied == StructApply(s, push, pop,
                                  Filled(s.batch_size, s.read_size, v))
       IN /\ Total(tracker) <= MaxLoss
          /\ _reg_tracker' = tracker
          /\ _struct' = Some(applied)
          /\ _read' = Some(StructRead(applied))
    /\ output_buffer' =
         Some(Append(output_buffer[1], NetOutput(input_buffer[1][t + 1])))
    /\ t' = t + 1

\* base.py 130-141: the base body of forward.
forward_base ==
    /\ pc = "idle"
    /\ impl.forward = "base"
    /\ outcome' = Raised("forward", "NotImplementedError")
    /\ UNCHANGED << cfgVars, _struct, _read, _reg_tracker, _network,
                    input_buffer, output_buffer, t, pc, call, cli >>

\* forward of a concrete controller: one time step.
forward ==
    /\ pc = "idle"
    /\ impl.forward = "concrete"
    /\ Ready
    /\ \E push \in 0..1, pop \in 0..1, v \in 0..MaxVal : Step(push, pop, v)
    /\ outcome' = Returned("forward", << output_buffer'[1][t'] >>)
    /\ UNCHANGED << cfgVars, _network, input_buffer, pc, call, cli >>

\* run_sequence on a freshly initialised batch.
run_sequence ==
    /\ pc = "idle"
    /\ Ready
    /\ t = 0
    /\ pc' = "run"
    /\ outcome' = NoOutcome
    /\ UNCHANGED << cfgVars, _struct, _read, _reg_tracker, _network,
                    input_buffer, output_buffer, t, call, cli >>

\* One iteration of run_sequence's loop: a call of forward.
RunStep ==
    /\ pc = "run"
    /\ t < Len(input_buffer[1])
    /\ IF impl.forward = "base"
         THEN /\ pc' = "idle"
              /\ outcome' = Raised("run_sequence", "NotImplementedError")
              /\ UNCHANGED << _struct, _read, _reg_tracker, output_buffer, t >>
         ELSE /\ \E push \in 0..1, pop \in 0..1, v \in 0..MaxVal :
                    Step(push, pop, v)
              /\ UNCHANGED << pc, outcome >>
    /\ UNCHANGED << cfgVars, _network, input_buffer, call, cli >>

\* The loop is over: the output buffer is returned.
RunReturn ==
    /\ pc = "run"
    /\ t = Len(input_buffer[1])
    /\ pc' = "idle"
    /\ outcome' = Returned("run_sequence", output_buffer[1])
    /\ UNCHANGED << cfgVars, _struct, _read, _reg_tracker, _network,
                    input_buffer, output_buffer, t, call, cli >>

\* base.py 173-175: return 0.
get_and_reset_reg_loss ==
    /\ pc = "idle"
    /\ outcome' = Returned("get_and_reset_reg_loss", << 0 >>)
    /\ UNCHANGED << cfgVars, _struct, _read, _reg_tracker, _network,
                    input_buffer, output_buffer, t, pc, call, cli >>

Next ==
    \/ \E batch_size \in 1..MaxBatch, xs \in Inputs :
          init_controller(batch_size, xs)
    \/ InitStructCheck
    \/ InitStructRead
    \/ InitStructNew
    \/ InitStructTracker
    \/ InitStructPush
    \/ InitStructPop
    \/ _init_buffer
    \/ _init_network
    \/ forward_base
    \/ forward
    \/ run_sequence
    \/ RunStep
    \/ RunReturn
    \/ get_and_reset_reg_loss

Spec == Init /\ [][Next]_vars

----------------------------------------------------------------------------
(* Properties of the controller, checked under Spec.                       *)

ValidStructType == IsClass(_struct_type) /\ IsStructSubclass(_struct_type)

\* The structure phase (a) of the running init_controller is complete: the
\* struct is a new empty one of the call's batch size, with the tracker
\* attached and both weights set.
StructInitialised ==
    /\ _struct # None
    /\ _struct[1].batch_size = call.batch_size
    /\ _struct[1].read_size = _read_size
    /\ _struct[1].contents = << >>
    /\ _struct[1].reg_tracker # None
    /\ _struct[1].push_weight # None
    /\ _struct[1].pop_weight # None

\* The buffer phase (b) of the running init_controller is complete.
BufferInitialised ==
    /\ input_buffer = Some(call.xs)
    /\ output_buffer = Some(<< >>)

InitSucceeded == outcome = Returned("init_controller", << >>)

\* One step in the fixed order of init_controller.
InitOrderStep ==
    /\ pc' = "zero_read" => pc = "check"
    /\ pc' = "new_struct" => pc = "zero_read" /\ _read' # None
    /\ pc' = "set_tracker" =>
          /\ pc = "new_struct"
          /\ _struct' # None
          /\ _struct'[1].reg_tracker = None
          /\ _struct'[1].push_weight = None
          /\ _struct'[1].pop_weight = None
    /\ pc' = "set_push" =>
          /\ pc = "set_tracker"
          /\ _struct'[1].reg_tracker # None
          /\ _struct'[1].push_weight = None
          /\ _struct'[1].pop_weight = None
    /\ pc' = "set_pop" =>
          /\ pc = "set_push"
          /\ _struct'[1].reg_tracker # None
          /\ _struct'[1].push_weight # None
          /\ _struct'[1].pop_weight = None
    /\ pc' = "init_buffer" => pc = "set_pop" /\ StructInitialised'
    /\ pc' = "init_network" =>
          pc = "init_buffer" /\ StructInitialised' /\ BufferInitialised'
    /\ (InitSucceeded' /\ ~InitSucceeded) =>
          /\ pc = "init_network"
          /\ StructInitialised' /\ BufferInitialised'
          /\ _network' = Some([batch_size |-> call.batch_size])
    /\ input_buffer' # input_buffer => pc = "init_buffer"
    /\ _network' # _network => pc = "init_network"
    /\ (_struct' # None /\ _struct'[1].push_weight # None) =>
          _struct'[1].reg_tracker # None
    /\ (_struct' # None /\ _struct'[1].pop_weight # None) =>
          _struct'[1].push_weight # None

\* C1: every init_controller runs structure initialization, then buffer
\* initialization, then network initialization, never interleaved; inside
\* the first the struct is created, then the tracker attached, then the push
\* and the pop weight set, so no weight is ever set on a struct that does not
\* exist or has no tracker.
C1_InitOrder == [][InitOrderStep]_vars

\* C1 witness: a call has reached network initialization with the struct
\* built and weighted and a non-empty input buffered.
C1_Witness ==
    /\ pc = "init_network"
    /\ StructInitialised
    /\ _struct[1].push_weight = Some(1)
    /\ BufferInitialised
    /\ Len(call.xs) > 0

InvalidStructTypeStep ==
    (IsClass(_struct_type) /\ ~IsStructSubclass(_struct_type)) =>
        /\ UNCHANGED << _read, _struct, _reg_tracker, _network, input_buffer,
                        output_buffer, t >>
        /\ pc' \in {"idle", "check"}
        /\ pc = "check" =>
              outcome' = Raised("init_controller", "ValueError")

C3_ReinitDiscards ==
    InitSucceeded =>
        /\ _read = Some(Zeros(call.batch_size, _read_size))
        /\ _struct # None
        /\ _struct[1].batch_size = call.batch_size
        /\ _struct[1].read_size = _read_size
        /\ _struct[1].contents = << >>
        /\ StructRead(_struct[1]) = Zeros(call.batch_size, _read_size)

\* C3 witness: a re-init, with a batch size of 2, of a controller whose
\* previous batch pushed with full strength (the tracker recorded it).
C3_Witness ==
    /\ InitSucceeded
    /\ call.batch_size = 2
    /\ _reg_tracker.push > 0

\* C4: immediately after any init_controller the accumulated regularization
\* total is zero, also when the previous batch added penalties that nobody
\* read and reset.
C4_TrackerFreshAfterInit == InitSucceeded => Total(_reg_tracker) = 0

\* C5: get_and_reset_reg_loss returns the tracker's total of the penalties
\* accumulated since the last reset, and resets the tracker.
C5_GetAndReset ==
    [][(pc = "idle" /\ pc' = "idle"
          /\ outcome'.op = "get_and_reset_reg_loss") =>
            /\ outcome' = Returned("get_and_reset_reg_loss",
                                   << Total(_reg_tracker) >>)
            /\ Total(_reg_tracker') = 0]_vars

\* C6: the constructor's push and pop weights (0 when omitted) are what
\* every struct built by init_controller is given, and no operation changes
\* the stored weights, read_size or struct_type.
C6_WeightsForwarded ==
    /\ _push_reg_weight = OrDefault(ctor.push_reg_weight, 0)
    /\ _pop_reg_weight = OrDefault(ctor.pop_reg_weight, 0)
    /\ _read_size = ctor.read_size
    /\ _struct_type = ctor.struct_type
    /\ (_struct # None /\ pc \notin {"set_tracker", "set_push", "set_pop"}) =>
          /\ _struct[1].push_weight = Some(OrDefault(ctor.push_reg_weight, 0))
          /\ _struct[1].pop_weight = Some(OrDefault(ctor.pop_reg_weight, 0))

\* C6 witness: after a second batch was initialised, the struct holds the
\* given push weight 1 and the default pop weight 0.
C6_Witness ==
    /\ InitSucceeded
    /\ ctor.push_reg_weight = Some(1)
    /\ ctor.pop_reg_weight = None
    /\ _struct[1].push_weight = Some(1)
    /\ _struct[1].pop_weight = Some(0)
    /\ _reg_tracker.push > 0

----------------------------------------------------------------------------
(* run.py: the __main__ block and get_object_from_arg.                     *)

\* A Python object, as far as issubclass and ** look at it: a class with
\* the names of the classes of its mro, a dict with its items, a module or
\* a function.
Class(name, bases) ==
    [kind |-> "class", name |-> name, mro |-> {name} \cup bases,
     items |-> << >>]

Dict(name, items) ==
    [kind |-> "dict", name |-> name, mro |-> {}, items |-> items]

Other(kind, name) == [kind |-> kind, name |-> name, mro |-> {}, items |-> << >>]

\* tasks/configs.py 16-20.
dyck_config ==
    Dict("dyck_config",
         [grammar |-> "dyck_grammar", to_predict |-> << ")", "]" >>,
          sample_depth |-> 5])

\* tasks/configs.py 30-34.
agreement_config ==
    Dict("agreement_config",
         [grammar |-> "agreement_grammar",
          to_predict |-> << "Auxsing", "Auxplur" >>, sample_depth |-> 8])

\* globals() of run.py: what lines 12-16 import and lines 19-48 define.
Globals ==
    [ Task |-> Class("Task", {}),
      ReverseTask |-> Class("ReverseTask", {"Task"}),
      CFGTask |-> Class("CFGTask", {"Task"}),
      AbstractController |-> Class("AbstractController", {}),
      BufferedController |->
          Class("BufferedController", {"AbstractController"}),
      dyck_config |-> dyck_config,
      agreement_config |-> agreement_config,
      argparse |-> Other("module", "argparse"),
      get_args |-> Other("function", "get_args") ]

\* What a command line may name: every global, and a name that is none.
Names == DOMAIN Globals \cup {"NoSuchName"}

Paths == {"model.dat"}

\* run.py 19-31: task is required, the options default to None.
get_args ==
    [ task : {Some(n) : n \in Names},
      config : {None} \cup {Some(n) : n \in Names},
      loadpath : {None} \cup {Some(q) : q \in Paths},
      savepath : {None} \cup {Some(q) : q \in Paths},
      controller : {None} \cup {Some(n) : n \in Names} ]

Result(error, value) == [error |-> error, value |-> value]

\* run.py 34-48.  The value is None or the object found; issubclass raises
\* TypeError itself when the object is no class.
get_object_from_arg(arg, superclass, default) ==
    IF arg = None THEN Result("none", default)
    ELSE IF arg[1] \notin DOMAIN Globals THEN Result("ValueError", None)
    ELSE LET obj == Globals[arg[1]]
         IN IF obj.kind # "class" THEN Result("TypeError", None)
            ELSE IF superclass \notin obj.mro THEN Result("ValueError", None)
            ELSE Result("none", Some(obj))

\* config[key] = value.
SetItem(items, key, value) ==
    [k \in DOMAIN items \cup {key} |-> IF k = key THEN value ELSE items[k]]

\* run.py 53: the command line is parsed.
InitCLI ==
    /\ __init__([read_size |-> 1, struct_type |-> "Stack",
                 push_reg_weight |-> None, pop_reg_weight |-> None],
                [init_buffer |-> "concrete", forward |-> "concrete",
                 network |-> TRUE])
    /\ \E args \in get_args :
          cli = [pc |-> "task", args |-> args, results |-> << >>,
                 task |-> None, config |-> None, controller |-> None,
                 error |-> "none", ran |-> None]

\* One of the three lookups of lines 54-56: the result is kept in field
\* and the block goes on to next, or the error ends the run.
Lookup(at, arg, superclass, default, field, next) ==
    /\ cli.pc = at
    /\ LET r == get_object_from_arg(arg, superclass, default)
       IN cli' = IF r.error = "none"
                   THEN [cli EXCEPT ![field] = r.value, !.pc = next,
                                    !.results = Append(@, r)]
                   ELSE [cli EXCEPT !.error = r.error, !.pc = "done",
                                    !.results = Append(@, r)]
    /\ UNCHANGED ctlVars

\* run.py 54.
MainTask == Lookup("task", cli.args.task, "Task", None, "task", "config")

\* run.py 55.
MainConfig ==
    Lookup("config", cli.args.config, "dict", Some(Dict("", << >>)),
           "config", "controller")

\* run.py 56.
MainController ==
    Lookup("controller", cli.args.controller, "AbstractController", None,
           "controller", "override")

\* run.py 58-64.
MainOverride ==
    /\ cli.pc = "override"
    /\ LET c0 == cli.config[1].items
           c1 == IF cli.controller # None
                   THEN SetItem(c0, "model_type", cli.controller[1].name)
                   ELSE c0
           c2 == IF cli.args.loadpath # None
                   THEN SetItem(c1, "load_path", cli.args.loadpath[1])
                   ELSE c1
           c3 == IF cli.args.savepath # None
                   THEN SetItem(c2, "save_path", cli.args.savepath[1])
                   ELSE c2
       IN cli' = [cli EXCEPT !.config = Some([cli.config[1] EXCEPT !.items = c3]),
                             !.pc = "run"]
    /\ UNCHANGED ctlVars

\* run.py 66: task(**config).run_experiment().
MainRun ==
    /\ cli.pc = "run"
    /\ cli' = [cli EXCEPT
                 !.ran = Some([task |-> cli.task[1].name,
                               kwargs |-> cli.config[1].items]),
                 !.pc = "done"]
    /\ UNCHANGED ctlVars

NextCLI ==
    \/ MainTask
    \/ MainConfig
    \/ MainController
    \/ MainOverride
    \/ MainRun

SpecCLI == InitCLI /\ [][NextCLI]_vars

----------------------------------------------------------------------------
(* Properties of run.py, checked under SpecCLI.                            *)

\* arg names an object that is an instance of superclass in the sense of
\* the docstring: a class below superclass, or a dictionary for dict.
RefersToInstance(arg, superclass) ==
    /\ arg # None
    /\ arg[1] \in DOMAIN Globals
    /\ LET obj == Globals[arg[1]]
       IN \/ obj.kind = "class" /\ superclass \in obj.mro
          \/ obj.kind = "dict" /\ superclass = "dict"

\* What the docstring promises of get_object_from_arg.
Verified(arg, superclass, default) ==
    IF arg = None THEN Result("none", default)
    ELSE IF RefersToInstance(arg, superclass)
      THEN Result("none", Some(Globals[arg[1]]))
      ELSE Result("ValueError", None)

\* C8: get_object_from_arg returns default for None, the object for a name
\* that refers to an instance of superclass, and raises ValueError in every
\* other case; after an error the task is neither constructed nor run.
C8_GetObjectVerifies ==
    /\ Len(cli.results) >= 1 =>
          cli.results[1] = Verified(cli.args.task, "Task", None)
    /\ Len(cli.results) >= 2 =>
          cli.results[2] =
              Verified(cli.args.config, "dict", Some(Dict("", << >>)))
    /\ Len(cli.results) >= 3 =>
          cli.results[3] =
              Verified(cli.args.controller, "AbstractController", None)
    /\ cli.error # "none" => cli.ran = None

\* The configuration the command line asks for: the named one, or an empty
\* one, with the three options laid over it.
Requested(args) ==
    LET c0 == IF args.config = None THEN << >>
              ELSE Globals[args.config[1]].items
        c1 == IF args.controller # None
                THEN SetItem(c0, "model_type", args.controller[1])
                ELSE c0
        c2 == IF args.loadpath # None
                THEN SetItem(c1, "load_path", args.loadpath[1])
                ELSE c1
    IN IF args.savepath # None
         THEN SetItem(c2, "save_path", args.savepath[1])
         ELSE c2

\* Every name on the command line refers to what its option takes.
WellFormed(args) ==
    /\ RefersToInstance(args.task, "Task")
    /\ args.config = None \/ RefersToInstance(args.config, "dict")
    /\ args.controller = None
          \/ RefersToInstance(args.controller, "AbstractController")

\* C9: the task is given the named configuration with model_type,
\* load_path and save_path replaced by the options that were given, and
\* every other key as the configuration has it.
C9_OverridesOnly ==
    (cli.pc = "done" /\ WellFormed(cli.args)) =>
        /\ cli.ran # None
        /\ cli.ran[1].kwargs = Requested(cli.args)

====
